---- MODULE Spec2Model ----
(***************************************************************************)
(* Landing gear controller, Baseline v5.0 (src/Baseline_v5.0.py).          *)
(*                                                                         *)
(* One LandingGearController with its GearConfiguration.  The two commands *)
(* command_gear_down and command_gear_up are modelled statement group by   *)
(* statement group: pc is the position inside the running command (or      *)
(* "idle" between commands), so that the transient states and the order of *)
(* phases and requirement checks are visible.  The controller is           *)
(* sequential: while pc # "idle" exactly one action is enabled.            *)
(*                                                                         *)
(* history is the caller's view: one entry per returned command, holding   *)
(* the command, its return value and the controller's fields at return.    *)
(***************************************************************************)
EXTENDS Integers, Sequences, FiniteSets, TLC

VARIABLES config, state, deployment_time_ms, fault_detected, timeline,
          pc, cmd, history

vars == <<config, state, deployment_time_ms, fault_detected, timeline,
          pc, cmd, history>>

ctl == <<state, deployment_time_ms, fault_detected, timeline>>

(* Number of commands the caller issues in one run. *)
MaxCalls == 4

-----------------------------------------------------------------------------
(* GearState *)

UP_LOCKED == "UP_LOCKED"
TRANSITIONING_DOWN == "TRANSITIONING_DOWN"
DOWN_LOCKED == "DOWN_LOCKED"
TRANSITIONING_UP == "TRANSITIONING_UP"
FAILURE_DETECTED == "FAILURE_DETECTED"

GearState ==
    {UP_LOCKED, TRANSITIONING_DOWN, DOWN_LOCKED, TRANSITIONING_UP, FAILURE_DETECTED}

-----------------------------------------------------------------------------
(* GearConfiguration.  actuator_speed_mm_per_100ms is a float in the code; *)
(* the model draws it from whole numbers of mm per 100 ms (5.0, 7.0, ...). *)

GearConfiguration(p, s, d, l, r) ==
    [pump_latency_ms |-> p, actuator_speed_mm_per_100ms |-> s,
     extension_distance_mm |-> d, lock_time_ms |-> l, requirement_time_ms |-> r]

BASELINE_CONFIG == GearConfiguration(200, 10, 700, 300, 8000)

SLOW_CONFIG == GearConfiguration(500, 5, 700, 500, 8000)

PumpLatencies == {0, 200, 500}
ActuatorSpeeds == {3, 5, 7, 10}
ExtensionDistances == {250, 700}
LockTimes == {0, 300, 500}
RequirementTimes == {100, 7200, 7500, 8000, 24000}

Configurations ==
    {GearConfiguration(p, s, d, l, r) :
        p \in PumpLatencies, s \in ActuatorSpeeds, d \in ExtensionDistances,
        l \in LockTimes, r \in RequirementTimes}

-----------------------------------------------------------------------------
(* Phase 2 duration:                                                       *)
(*     speed = actuator_speed_mm_per_100ms / 100.0                         *)
(*     extension_time = int(extension_distance_mm / speed)                 *)
(* Both divisions are IEEE-754 double divisions, each rounded to nearest;  *)
(* int() then truncates.  The operators below compute that result with     *)
(* integers only.                                                          *)

Pow2(n) == IF n <= 0 THEN 1 ELSE 2^n

(* 2^n mod 100.  From n = 2 on the residues repeat with period 20, which  *)
(* keeps the power within the integers the checker computes with.          *)
Pow2Mod100(n) == IF n < 2 THEN Pow2(n) ELSE Pow2(2 + ((n - 2) % 20)) % 100

RECURSIVE NormUp(_, _)
NormUp(s, j) == IF s * Pow2(j) >= 100 THEN j ELSE NormUp(s, j + 1)

RECURSIVE NormDown(_, _)
NormDown(s, i) == IF s < 200 * Pow2(i) THEN i ELSE NormDown(s, i + 1)

(* The j with 1 <= (s / 100) * 2^j < 2: the double s / 100.0 has the       *)
(* 53-bit significand round(s * 2^(52 + j) / 100).                         *)
SpeedExponent(s) == IF s < 100 THEN NormUp(s, 0) ELSE 0 - NormDown(s, 0)

(* By how many hundredths of a unit in the last place the double s / 100.0 *)
(* lies above the real s / 100: 0 when the division is exact or rounds     *)
(* down.  (s * 2^e mod 100 is never 50 for e >= 2, so there are no ties.)  *)
SpeedRoundingExcess(s) ==
    LET r == (s * Pow2Mod100(52 + SpeedExponent(s))) % 100
    IN  IF r <= 50 THEN 0 ELSE 100 - r

RECURSIVE BinadeFrom(_, _)
BinadeFrom(n, k) == IF Pow2(k + 1) >= n THEN k ELSE BinadeFrom(n, k + 1)

(* The k with 2^k < n <= 2^(k+1): the doubles just below n are spaced      *)
(* 2^(k - 52) apart.                                                       *)
BinadeBelow(n) == IF n <= 1 THEN 0 - 1 ELSE BinadeFrom(n, 0)

(* Whether the double quotient d / (s / 100.0) rounds to the double just   *)
(* below the whole number n = 100 d / s instead of to n.  It does when the *)
(* speed was rounded up and the real quotient n * (1 - excess) lies below  *)
(* the midpoint of n and its predecessor.                                  *)
QuotientFallsShort(s, n) ==
    LET err == SpeedRoundingExcess(s)
        ep == SpeedExponent(s) + BinadeBelow(n) - 1
    IN  /\ err > 0
        /\ IF ep >= 0 THEN n * err > s * Pow2(ep)
                      ELSE n * err * Pow2(0 - ep) > s

ExtensionTime(cfg) ==
    LET s == cfg.actuator_speed_mm_per_100ms
        d == cfg.extension_distance_mm
        n == (100 * d) \div s
    IN  IF d > 0 /\ (100 * d) % s = 0 /\ QuotientFallsShort(s, n)
        THEN n - 1
        ELSE n

-----------------------------------------------------------------------------
(* Timeline events.  An event text with a formatted duration, such as      *)
(* f"Pump ready ({pump_time}ms)", is the pair of its fixed text and the    *)
(* number.                                                                 *)

EvIssued == <<"Deployment command issued">>
EvPumpReady(ms) == <<"Pump ready", ms>>
EvExtensionComplete(ms) == <<"Extension complete", ms>>
EvLockEngaged(ms) == <<"Lock engaged", ms>>
EvBreach == <<"Requirement breach detected">>
EvSuccess == <<"Deployment complete - SUCCESS">>

(* _record_event: append {time_ms, state, event} with the current fields. *)
RecordEvent(tl, t, st, ev) ==
    Append(tl, [time_ms |-> t, state |-> st, event |-> ev])

(* Variant: the check compares with the default requirement (8000 ms)     *)
(* instead of the configured one.                                          *)
RequirementBreached_DefaultRequirement(t, cfg) == t > BASELINE_CONFIG.requirement_time_ms

(* Variant: the deadline itself already counts as a breach. *)
RequirementBreached_AtDeadline(t, cfg) == t >= cfg.requirement_time_ms

(* _check_requirement's condition for a breach. *)
RequirementBreached(t, cfg) == t > cfg.requirement_time_ms

(* Variant: the second guard lets FAILURE_DETECTED through (a retry). *)
GearDownGuard_RetryAfterFailure(st) ==
    IF st = DOWN_LOCKED THEN "already down"
    ELSE IF st \notin {UP_LOCKED, FAILURE_DETECTED} THEN "invalid state"
    ELSE "ok"

(* command_gear_down's two guards, in order. *)
GearDownGuard(st) ==
    IF st = DOWN_LOCKED THEN "already down"
    ELSE IF st # UP_LOCKED THEN "invalid state"
    ELSE "ok"

(* Variant: the guard rejects only the transient and fault states. *)
GearUpGuard_AllowsUpLocked(st) ==
    IF st \notin {DOWN_LOCKED, UP_LOCKED} THEN "invalid state" ELSE "ok"

(* command_gear_up's guard. *)
GearUpGuard(st) == IF st # DOWN_LOCKED THEN "invalid state" ELSE "ok"

(* Variant: the result of the check is ignored and the sequence goes on. *)
AfterCheck_Continue(breached, next) == next

(* `if not self._check_requirement(): return False`: where the command     *)
(* goes after a check. *)
AfterCheck(breached, next) == IF breached THEN "idle" ELSE next

(* What the caller sees when a command returns. *)
Returned(c, ret, st, t, f, tl) ==
    [cmd |-> c, ret |-> ret, state |-> st, deployment_time_ms |-> t,
     fault_detected |-> f, timeline |-> tl]

-----------------------------------------------------------------------------
(* __init__ *)
Init ==
    /\ config \in Configurations
    /\ state = UP_LOCKED
    /\ deployment_time_ms = 0
    /\ fault_detected = FALSE
    /\ timeline = <<>>
    /\ pc = "idle"
    /\ cmd = "none"
    /\ history = <<>>

CanCall == pc = "idle" /\ Len(history) < MaxCalls

(* Variant: the reset of lines 130-132 runs before the guards. *)
GearDownRejected_ResetFirst ==
    /\ CanCall
    /\ GearDownGuard(state) # "ok"
    /\ cmd' = "down"
    /\ deployment_time_ms' = 0
    /\ fault_detected' = FALSE
    /\ timeline' = <<>>
    /\ history' = Append(history,
           Returned("down", FALSE, state, deployment_time_ms', fault_detected', timeline'))
    /\ UNCHANGED <<config, state, pc>>

(* command_gear_down, a guard rejects: log, return False. *)
GearDownRejected ==
    /\ CanCall
    /\ GearDownGuard(state) # "ok"
    /\ cmd' = "down"
    /\ history' = Append(history,
           Returned("down", FALSE, state, deployment_time_ms, fault_detected, timeline))
    /\ UNCHANGED <<config, state, deployment_time_ms, fault_detected, timeline, pc>>

(* Variant: line 130 (self.deployment_time_ms = 0) is missing. *)
GearDownAccepted_NoTimeReset ==
    /\ CanCall
    /\ GearDownGuard(state) = "ok"
    /\ cmd' = "down"
    /\ fault_detected' = FALSE
    /\ timeline' = RecordEvent(<<>>, deployment_time_ms, state, EvIssued)
    /\ pc' = "pump"
    /\ UNCHANGED <<config, state, deployment_time_ms, history>>

(* Variant: line 132 (self.timeline = []) is missing. *)
GearDownAccepted_KeepsTimeline ==
    /\ CanCall
    /\ GearDownGuard(state) = "ok"
    /\ cmd' = "down"
    /\ deployment_time_ms' = 0
    /\ fault_detected' = FALSE
    /\ timeline' = RecordEvent(timeline, 0, state, EvIssued)
    /\ pc' = "pump"
    /\ UNCHANGED <<config, state, history>>

(* command_gear_down, guards passed: reset and record the command. *)
GearDownAccepted ==
    /\ CanCall
    /\ GearDownGuard(state) = "ok"
    /\ cmd' = "down"
    /\ deployment_time_ms' = 0
    /\ fault_detected' = FALSE
    /\ timeline' = RecordEvent(<<>>, 0, state, EvIssued)
    /\ pc' = "pump"
    /\ UNCHANGED <<config, state, history>>

(* Variant: line 136 (self.state = GearState.TRANSITIONING_DOWN) is        *)
(* missing, so the deployment runs with the state still UP_LOCKED.         *)
PumpActivate_NoTransition ==
    /\ pc = "pump"
    /\ pc' = "pumping"
    /\ UNCHANGED <<config, state, deployment_time_ms, fault_detected, timeline,
                   cmd, history>>

(* Phase 1 begins (lines 136-138): TRANSITIONING_DOWN, then the wait of    *)
(* line 139 with the elapsed time still 0 and only the command recorded.   *)
PumpActivate ==
    /\ pc = "pump"
    /\ state' = TRANSITIONING_DOWN
    /\ pc' = "pumping"
    /\ UNCHANGED <<config, deployment_time_ms, fault_detected, timeline, cmd,
                   history>>

(* Variant: line 141 (record "Pump ready") runs before line 140 (advance   *)
(* the time), so the event is stamped with the time before the phase.      *)
PumpPhase_RecordsBeforeAdvance ==
    /\ pc = "pumping"
    /\ deployment_time_ms' = deployment_time_ms + config.pump_latency_ms
    /\ timeline' = RecordEvent(timeline, deployment_time_ms, state,
                               EvPumpReady(config.pump_latency_ms))
    /\ pc' = "check1"
    /\ UNCHANGED <<config, state, fault_detected, cmd, history>>

(* Phase 1 ends (lines 139-141): the wait is over, the time advances and   *)
(* "Pump ready" is recorded.                                               *)
PumpPhase ==
    /\ pc = "pumping"
    /\ deployment_time_ms' = deployment_time_ms + config.pump_latency_ms
    /\ timeline' = RecordEvent(timeline, deployment_time_ms', state,
                               EvPumpReady(config.pump_latency_ms))
    /\ pc' = "check1"
    /\ UNCHANGED <<config, state, fault_detected, cmd, history>>

(* Variant: line 106 (self.state = GearState.FAILURE_DETECTED) is missing, *)
(* so a breached deployment returns in the state of the running phase.     *)
CheckRequirement_KeepsState(next) ==
    /\ IF RequirementBreached(deployment_time_ms, config)
       THEN /\ fault_detected' = TRUE
            /\ timeline' = RecordEvent(timeline, deployment_time_ms, state, EvBreach)
            /\ pc' = AfterCheck(TRUE, next)
            /\ history' = IF pc' = "idle"
                          THEN Append(history,
                                   Returned(cmd, FALSE, state, deployment_time_ms,
                                            fault_detected', timeline'))
                          ELSE history
            /\ UNCHANGED state
       ELSE /\ pc' = AfterCheck(FALSE, next)
            /\ UNCHANGED <<state, fault_detected, timeline, history>>
    /\ UNCHANGED <<config, deployment_time_ms, cmd>>

(* Variant: line 107 (self.fault_detected = True) is missing. *)
CheckRequirement_NoFaultFlag(next) ==
    /\ IF RequirementBreached(deployment_time_ms, config)
       THEN /\ state' = FAILURE_DETECTED
            /\ timeline' = RecordEvent(timeline, deployment_time_ms, state', EvBreach)
            /\ pc' = AfterCheck(TRUE, next)
            /\ history' = IF pc' = "idle"
                          THEN Append(history,
                                   Returned(cmd, FALSE, state', deployment_time_ms,
                                            fault_detected, timeline'))
                          ELSE history
            /\ UNCHANGED fault_detected
       ELSE /\ pc' = AfterCheck(FALSE, next)
            /\ UNCHANGED <<state, fault_detected, timeline, history>>
    /\ UNCHANGED <<config, deployment_time_ms, cmd>>

(* Variant: line 108 (record the breach) runs before line 106 (set the    *)
(* state), so the breach event carries the state of the running phase.     *)
CheckRequirement_RecordsBeforeState(next) ==
    /\ IF RequirementBreached(deployment_time_ms, config)
       THEN /\ state' = FAILURE_DETECTED
            /\ fault_detected' = TRUE
            /\ timeline' = RecordEvent(timeline, deployment_time_ms, state, EvBreach)
            /\ pc' = AfterCheck(TRUE, next)
            /\ history' = IF pc' = "idle"
                          THEN Append(history,
                                   Returned(cmd, FALSE, state', deployment_time_ms,
                                            fault_detected', timeline'))
                          ELSE history
       ELSE /\ pc' = AfterCheck(FALSE, next)
            /\ UNCHANGED <<state, fault_detected, timeline, history>>
    /\ UNCHANGED <<config, deployment_time_ms, cmd>>

(* _check_requirement and the `return False` that follows a failed check;  *)
(* next is the position of the statement after a passed check.             *)
CheckRequirement(next) ==
    /\ IF RequirementBreached(deployment_time_ms, config)
       THEN /\ state' = FAILURE_DETECTED
            /\ fault_detected' = TRUE
            /\ timeline' = RecordEvent(timeline, deployment_time_ms, state', EvBreach)
            /\ pc' = AfterCheck(TRUE, next)
            /\ history' = IF pc' = "idle"
                          THEN Append(history,
                                   Returned(cmd, FALSE, state', deployment_time_ms,
                                            fault_detected', timeline'))
                          ELSE history
       ELSE /\ pc' = AfterCheck(FALSE, next)
            /\ UNCHANGED <<state, fault_detected, timeline, history>>
    /\ UNCHANGED <<config, deployment_time_ms, cmd>>

(* Check after phase 1. *)
CheckAfterPump ==
    /\ pc = "check1"
    /\ CheckRequirement("extend")

(* Variant: phase 2 advances the time without recording its event. *)
ExtensionPhase_NoRecord ==
    /\ pc = "extend"
    /\ deployment_time_ms' = deployment_time_ms + ExtensionTime(config)
    /\ pc' = "check2"
    /\ UNCHANGED <<config, state, fault_detected, timeline, cmd, history>>

(* Phase 2: actuator extension. *)
ExtensionPhase ==
    /\ pc = "extend"
    /\ deployment_time_ms' = deployment_time_ms + ExtensionTime(config)
    /\ timeline' = RecordEvent(timeline, deployment_time_ms', state,
                               EvExtensionComplete(ExtensionTime(config)))
    /\ pc' = "check2"
    /\ UNCHANGED <<config, state, fault_detected, cmd, history>>

(* Check after phase 2. *)
CheckAfterExtension ==
    /\ pc = "check2"
    /\ CheckRequirement("lock")

(* Phase 3: lock engagement. *)
LockPhase ==
    /\ pc = "lock"
    /\ deployment_time_ms' = deployment_time_ms + config.lock_time_ms
    /\ timeline' = RecordEvent(timeline, deployment_time_ms', state,
                               EvLockEngaged(config.lock_time_ms))
    /\ pc' = "check3"
    /\ UNCHANGED <<config, state, fault_detected, cmd, history>>

(* Check after phase 3. *)
CheckAfterLock ==
    /\ pc = "check3"
    /\ CheckRequirement("success")

(* Variant: line 168 (self.state = GearState.DOWN_LOCKED) is missing. *)
DeploySuccess_StaysTransitioning ==
    /\ pc = "success"
    /\ timeline' = RecordEvent(timeline, deployment_time_ms, state, EvSuccess)
    /\ pc' = "idle"
    /\ history' = Append(history,
           Returned(cmd, TRUE, state, deployment_time_ms, fault_detected, timeline'))
    /\ UNCHANGED <<config, state, deployment_time_ms, fault_detected, cmd>>

(* Variant: line 174 (record the success) runs before line 168 (set the   *)
(* state), so the last event carries TRANSITIONING_DOWN.                   *)
DeploySuccess_RecordsBeforeLock ==
    /\ pc = "success"
    /\ state' = DOWN_LOCKED
    /\ timeline' = RecordEvent(timeline, deployment_time_ms, state, EvSuccess)
    /\ pc' = "idle"
    /\ history' = Append(history,
           Returned(cmd, TRUE, state', deployment_time_ms, fault_detected, timeline'))
    /\ UNCHANGED <<config, deployment_time_ms, fault_detected, cmd>>

(* Success: DOWN_LOCKED, record, return True. *)
DeploySuccess ==
    /\ pc = "success"
    /\ state' = DOWN_LOCKED
    /\ timeline' = RecordEvent(timeline, deployment_time_ms, state', EvSuccess)
    /\ pc' = "idle"
    /\ history' = Append(history,
           Returned(cmd, TRUE, state', deployment_time_ms, fault_detected, timeline'))
    /\ UNCHANGED <<config, deployment_time_ms, fault_detected, cmd>>

(* command_gear_up, the guard rejects. *)
GearUpRejected ==
    /\ CanCall
    /\ GearUpGuard(state) # "ok"
    /\ cmd' = "up"
    /\ history' = Append(history,
           Returned("up", FALSE, state, deployment_time_ms, fault_detected, timeline))
    /\ UNCHANGED <<config, state, deployment_time_ms, fault_detected, timeline, pc>>

(* Variant: retraction also clears the elapsed time of the deployment. *)
GearUpAccepted_ResetsTime ==
    /\ CanCall
    /\ GearUpGuard(state) = "ok"
    /\ cmd' = "up"
    /\ state' = TRANSITIONING_UP
    /\ deployment_time_ms' = 0
    /\ pc' = "retract"
    /\ UNCHANGED <<config, fault_detected, timeline, history>>

(* command_gear_up, guard passed: TRANSITIONING_UP. *)
GearUpAccepted ==
    /\ CanCall
    /\ GearUpGuard(state) = "ok"
    /\ cmd' = "up"
    /\ state' = TRANSITIONING_UP
    /\ pc' = "retract"
    /\ UNCHANGED <<config, deployment_time_ms, fault_detected, timeline, history>>

(* Variant: line 186 (self.state = GearState.UP_LOCKED) is missing. *)
GearUpLocked_StaysTransitioning ==
    /\ pc = "retract"
    /\ pc' = "idle"
    /\ history' = Append(history,
           Returned(cmd, TRUE, state, deployment_time_ms, fault_detected, timeline))
    /\ UNCHANGED <<config, state, deployment_time_ms, fault_detected, timeline, cmd>>

(* command_gear_up: UP_LOCKED, return True. *)
GearUpLocked ==
    /\ pc = "retract"
    /\ state' = UP_LOCKED
    /\ pc' = "idle"
    /\ history' = Append(history,
           Returned(cmd, TRUE, state', deployment_time_ms, fault_detected, timeline))
    /\ UNCHANGED <<config, deployment_time_ms, fault_detected, timeline, cmd>>

Next ==
    \/ GearDownRejected
    \/ GearDownAccepted
    \/ PumpActivate
    \/ PumpPhase
    \/ CheckAfterPump
    \/ ExtensionPhase
    \/ CheckAfterExtension
    \/ LockPhase
    \/ CheckAfterLock
    \/ DeploySuccess
    \/ GearUpRejected
    \/ GearUpAccepted
    \/ GearUpLocked

Spec == Init /\ [][Next]_vars

(* The statements of a command that has passed its guards.  The code is    *)
(* sequential and every statement completes (time.sleep takes a finite     *)
(* time), so a started command keeps running; the caller may stop calling. *)
Running ==
    \/ PumpActivate
    \/ PumpPhase
    \/ CheckAfterPump
    \/ ExtensionPhase
    \/ CheckAfterExtension
    \/ LockPhase
    \/ CheckAfterLock
    \/ DeploySuccess
    \/ GearUpLocked

FairSpec == Spec /\ WF_vars(Running)

TypeOK ==
    /\ config \in Configurations
    /\ state \in GearState
    /\ deployment_time_ms \in Nat
    /\ fault_detected \in BOOLEAN
    /\ pc \in {"idle", "pump", "pumping", "check1", "extend", "check2", "lock", "check3",
               "success", "retract"}
    /\ cmd \in {"none", "down", "up"}
    /\ Len(history) <= MaxCalls

-----------------------------------------------------------------------------
(* The v3.0 controller (Baseline_v3.0.py): the same commands without the   *)
(* timeline.  Each command is an operator from the controller's fields to  *)
(* the returned value and the fields after the return.                     *)

V3Controller(st, t, f) ==
    [state |-> st, deployment_time_ms |-> t, fault_detected |-> f]

(* __init__ *)
V3Init == V3Controller(UP_LOCKED, 0, FALSE)

V3Return(ret, c) == [ret |-> ret, after |-> c]

(* Variant: the extension time is the exact quotient truncated, without    *)
(* the rounding of the two floating-point divisions.                       *)
V3ExtensionTime_ExactQuotient(cfg) ==
    (100 * cfg.extension_distance_mm) \div cfg.actuator_speed_mm_per_100ms

(* Lines 103-104 are the two divisions of v5.0's lines 147-148, on the     *)
(* same fields of the same dataclass.                                      *)
V3ExtensionTime(cfg) == ExtensionTime(cfg)

(* _check_requirement *)
V3CheckRequirement(c, cfg) ==
    IF c.deployment_time_ms > cfg.requirement_time_ms
    THEN V3Return(FALSE, [c EXCEPT !.state = FAILURE_DETECTED,
                                   !.fault_detected = TRUE])
    ELSE V3Return(TRUE, c)

(* command_gear_down *)
V3CommandGearDown(c, cfg) ==
    IF c.state = DOWN_LOCKED THEN V3Return(FALSE, c)
    ELSE IF c.state \notin {UP_LOCKED} THEN V3Return(FALSE, c)
    ELSE
      LET reset == [c EXCEPT !.deployment_time_ms = 0, !.fault_detected = FALSE]
          pumped == [reset EXCEPT !.state = TRANSITIONING_DOWN,
                                  !.deployment_time_ms = @ + cfg.pump_latency_ms]
          check1 == V3CheckRequirement(pumped, cfg)
          extended == [check1.after EXCEPT
                          !.deployment_time_ms = @ + V3ExtensionTime(cfg)]
          check2 == V3CheckRequirement(extended, cfg)
          locked == [check2.after EXCEPT
                          !.deployment_time_ms = @ + cfg.lock_time_ms]
          check3 == V3CheckRequirement(locked, cfg)
      IN  IF ~check1.ret THEN V3Return(FALSE, check1.after)
          ELSE IF ~check2.ret THEN V3Return(FALSE, check2.after)
          ELSE IF ~check3.ret THEN V3Return(FALSE, check3.after)
          ELSE V3Return(TRUE, [check3.after EXCEPT !.state = DOWN_LOCKED])

(* command_gear_up *)
V3CommandGearUp(c) ==
    IF c.state # DOWN_LOCKED THEN V3Return(FALSE, c)
    ELSE LET retracting == [c EXCEPT !.state = TRANSITIONING_UP]
         IN  V3Return(TRUE, [retracting EXCEPT !.state = UP_LOCKED])

-----------------------------------------------------------------------------
(* Vocabulary of the properties. *)

LastOf(seq) == seq[Len(seq)]

IsPrefix(a, b) == Len(a) <= Len(b) /\ SubSeq(b, 1, Len(a)) = a

(* The state in which the i-th command of the run was issued. *)
EntryState(i) == IF i = 1 THEN UP_LOCKED ELSE history[i - 1].state

(* The i-th command was a deploy issued in UP_LOCKED. *)
DeployFromUp(i) == history[i].cmd = "down" /\ EntryState(i) = UP_LOCKED

(* The prefix sums of the three phase durations. *)
AfterPump(cfg) == cfg.pump_latency_ms
AfterExtension(cfg) == AfterPump(cfg) + ExtensionTime(cfg)
AfterLocking(cfg) == AfterExtension(cfg) + cfg.lock_time_ms

EventTexts(tl) == {tl[k].event[1] : k \in DOMAIN tl}

(* This step is a call of command_gear_down / command_gear_up. *)
DownCalled == pc = "idle" /\ cmd' = "down" /\ (pc' # pc \/ history' # history)
UpCalled == pc = "idle" /\ cmd' = "up" /\ (pc' # pc \/ history' # history)

-----------------------------------------------------------------------------
(* C1  Threshold law: a deploy issued in UP_LOCKED returns True and ends   *)
(* DOWN_LOCKED with fault_detected false when the three phase durations    *)
(* sum to at most requirement_time_ms (equality included); otherwise it    *)
(* returns False and ends FAILURE_DETECTED with fault_detected true.       *)
C1_ThresholdLaw ==
    \A i \in DOMAIN history :
        DeployFromUp(i) =>
            IF AfterLocking(config) <= config.requirement_time_ms
            THEN /\ history[i].ret
                 /\ history[i].state = DOWN_LOCKED
                 /\ ~history[i].fault_detected
            ELSE /\ ~history[i].ret
                 /\ history[i].state = FAILURE_DETECTED
                 /\ history[i].fault_detected

(* A deploy whose phase sum equals the requirement exactly has returned. *)
C1_Witness ==
    /\ Len(history) >= 1
    /\ DeployFromUp(1)
    /\ AfterLocking(config) = config.requirement_time_ms
    /\ history[1].ret

(* C2  FAILURE_DETECTED is terminal: from then on every command is         *)
(* rejected (returns False) and state, deployment_time_ms, fault_detected  *)
(* and timeline never change.                                              *)
C2_FailureTerminal ==
    [][state = FAILURE_DETECTED =>
          /\ UNCHANGED ctl
          /\ pc' = "idle"
          /\ history' # history => ~LastOf(history').ret]_vars

(* After the failure a retract and then a deploy have both been rejected. *)
C2_Witness ==
    /\ Len(history) >= 3
    /\ history[1].state = FAILURE_DETECTED
    /\ history[2].cmd = "up" /\ ~history[2].ret
    /\ history[3].cmd = "down" /\ ~history[3].ret
    /\ state = FAILURE_DETECTED

(* C3  A deploy called in any state other than UP_LOCKED returns False and *)
(* leaves state, deployment_time_ms, fault_detected and timeline as they   *)
(* were.                                                                   *)
C3_RejectedDeployMutatesNothing ==
    [][(DownCalled /\ state # UP_LOCKED) =>
          /\ UNCHANGED ctl
          /\ pc' = "idle"
          /\ history' = Append(history,
                 Returned("down", FALSE, state, deployment_time_ms,
                          fault_detected, timeline))]_vars

(* A second deploy was rejected while DOWN_LOCKED, the five events of the  *)
(* first still in the timeline.                                            *)
C3_Witness ==
    /\ Len(history) >= 2
    /\ history[1].cmd = "down" /\ history[1].ret
    /\ history[2].cmd = "down" /\ ~history[2].ret
    /\ state = DOWN_LOCKED
    /\ Len(timeline) = 5

(* C4  Early detection halts the sequence: a phase starts only after the   *)
(* check of the phase before it has passed, and after a breach             *)
(* deployment_time_ms is the first prefix sum (pump; pump + extension;     *)
(* pump + extension + lock) above requirement_time_ms and the timeline     *)
(* holds no event of a later phase.                                        *)
C4_EarlyDetectionHalts ==
    LET req == config.requirement_time_ms
        p1 == AfterPump(config)
        p2 == AfterExtension(config)
        p3 == AfterLocking(config)
        texts == EventTexts(timeline)
    IN  /\ pc = "extend" =>
              deployment_time_ms = p1 /\ p1 <= req /\ state = TRANSITIONING_DOWN
        /\ pc = "lock" =>
              deployment_time_ms = p2 /\ p2 <= req /\ state = TRANSITIONING_DOWN
        /\ pc = "success" =>
              deployment_time_ms = p3 /\ p3 <= req /\ state = TRANSITIONING_DOWN
        /\ state = FAILURE_DETECTED =>
              /\ pc = "idle"
              /\ deployment_time_ms > req
              /\ deployment_time_ms =
                     IF p1 > req THEN p1 ELSE IF p2 > req THEN p2 ELSE p3
              /\ p1 > req => "Extension complete" \notin texts
              /\ p2 > req => "Lock engaged" \notin texts
              /\ "Deployment complete - SUCCESS" \notin texts

(* A breach found by the check after the extension phase. *)
C4_Witness ==
    /\ state = FAILURE_DETECTED
    /\ AfterPump(config) <= config.requirement_time_ms
    /\ AfterExtension(config) > config.requirement_time_ms
    /\ config.lock_time_ms > 0
    /\ deployment_time_ms = AfterExtension(config)

(* The events of the first command's timeline, as returned to the caller. *)
FirstTimeline == history[1].timeline

ScenarioB == config = SLOW_CONFIG /\ Len(history) >= 1 /\ history[1].cmd = "down"

(* C5 as stated: in scenario B (SLOW_CONFIG) the breach is found by the    *)
(* check after phase B at 14500 ms and the timeline holds exactly three    *)
(* events: command issued, pump ready, breach; no lock-engaged event.      *)
C5_ScenarioB_ThreeEvents ==
    ScenarioB =>
        /\ ~history[1].ret
        /\ history[1].deployment_time_ms = 14500
        /\ [k \in DOMAIN FirstTimeline |-> FirstTimeline[k].event]
               = <<EvIssued, EvPumpReady(500), EvBreach>>
        /\ "Lock engaged" \notin EventTexts(FirstTimeline)

(* C5 amended: in scenario B the timeline holds exactly four events:       *)
(* command issued, pump ready, extension complete (recorded before the     *)
(* check that finds the breach), breach; no lock-engaged event.            *)
C5_ScenarioB_FourEvents ==
    ScenarioB =>
        /\ ~history[1].ret
        /\ history[1].deployment_time_ms = 14500
        /\ FirstTimeline =
             << [time_ms |-> 0, state |-> UP_LOCKED, event |-> EvIssued],
                [time_ms |-> 500, state |-> TRANSITIONING_DOWN,
                 event |-> EvPumpReady(500)],
                [time_ms |-> 14500, state |-> TRANSITIONING_DOWN,
                 event |-> EvExtensionComplete(14000)],
                [time_ms |-> 14500, state |-> FAILURE_DETECTED, event |-> EvBreach] >>
        /\ "Lock engaged" \notin EventTexts(FirstTimeline)

(* The deploy of scenario B has returned. *)
C5_Witness == ScenarioB /\ state = FAILURE_DETECTED /\ fault_detected

(* C6 as stated: every call of deploy clears the timeline (which then      *)
(* holds only the command-issued event), and no other step ever removes    *)
(* an event.                                                               *)
C6_ClearedOnEveryDeploy ==
    [][IF DownCalled
       THEN timeline' = RecordEvent(<<>>, 0, state, EvIssued)
       ELSE IsPrefix(timeline, timeline')]_vars

(* C6 amended: every deploy call that passes its guards (issued in         *)
(* UP_LOCKED) clears the timeline; a rejected deploy, the phases and       *)
(* checks of a running deploy, and retract never remove an event.          *)
C6_ClearedOnAcceptedDeploy ==
    [][IF DownCalled /\ state = UP_LOCKED
       THEN timeline' = RecordEvent(<<>>, 0, state, EvIssued)
       ELSE IsPrefix(timeline, timeline')]_vars

(* A second accepted deploy has just cleared the five events of the first. *)
C6_Witness ==
    /\ Len(history) >= 2
    /\ Len(history[1].timeline) = 5
    /\ pc = "pump"
    /\ Len(timeline) = 1

(* extension_distance_mm divided by (actuator_speed_mm_per_100ms / 100),   *)
(* truncated toward zero, in exact arithmetic.                             *)
TruncatedQuotient(cfg) ==
    (100 * cfg.extension_distance_mm) \div cfg.actuator_speed_mm_per_100ms

(* C7  Sum invariant: after every successful deploy deployment_time_ms is  *)
(* pump_latency_ms + extension_time + lock_time_ms, extension_time being   *)
(* the distance divided by (speed / 100) truncated toward zero; 7500 for   *)
(* the baseline configuration.                                             *)
C7_SumInvariant ==
    \A i \in DOMAIN history :
        (history[i].cmd = "down" /\ history[i].ret) =>
            /\ history[i].deployment_time_ms =
                   config.pump_latency_ms + TruncatedQuotient(config)
                       + config.lock_time_ms
            /\ config = BASELINE_CONFIG => history[i].deployment_time_ms = 7500

(* C8  retract guard: a retract called in DOWN_LOCKED is accepted; called  *)
(* in any other state it returns False at once and leaves state,           *)
(* deployment_time_ms, fault_detected and timeline unchanged; only an      *)
(* accepted retract returns True.                                          *)
C8_RetractGuard ==
    [][/\ UpCalled =>
             IF state = DOWN_LOCKED
             THEN pc' = "retract" /\ history' = history
             ELSE /\ UNCHANGED ctl
                  /\ pc' = "idle"
                  /\ history' = Append(history,
                         Returned("up", FALSE, state, deployment_time_ms,
                                  fault_detected, timeline))
       /\ (history' # history /\ LastOf(history').cmd = "up" /\ LastOf(history').ret)
             => pc = "retract"]_vars

(* A retract succeeded and the retract right after it was rejected. *)
C8_Witness ==
    /\ Len(history) >= 3
    /\ history[2].cmd = "up" /\ history[2].ret
    /\ history[3].cmd = "up" /\ ~history[3].ret
    /\ state = UP_LOCKED

(* The first i commands were deploy, retract, deploy, retract, ... *)
Alternating(i) ==
    \A j \in 1..i : history[j].cmd = IF j % 2 = 1 THEN "down" ELSE "up"

(* C9  Round trip: with a phase sum within the requirement, deploy then    *)
(* retract on a fresh controller both return True and end in UP_LOCKED,    *)
(* and so does every repetition of the pair.                               *)
C9_RoundTrip ==
    AfterLocking(config) <= config.requirement_time_ms =>
        \A i \in DOMAIN history :
            Alternating(i) =>
                /\ history[i].ret
                /\ history[i].state = IF i % 2 = 1 THEN DOWN_LOCKED ELSE UP_LOCKED

(* Two full round trips have returned. *)
C9_Witness ==
    /\ Len(history) >= 4
    /\ Alternating(4)
    /\ history[4].ret
    /\ state = UP_LOCKED

(* C10  Determinism: any two deploys of one run that were issued in        *)
(* UP_LOCKED return the same value and leave the same state,               *)
(* deployment_time_ms, fault_detected and timeline; nothing accumulates    *)
(* from the earlier attempt.                                               *)
C10_Determinism ==
    \A i, j \in DOMAIN history :
        (DeployFromUp(i) /\ DeployFromUp(j)) => history[i] = history[j]

(* A second deploy has returned after a successful retract. *)
C10_Witness ==
    /\ Len(history) >= 3
    /\ DeployFromUp(1)
    /\ history[2].cmd = "up" /\ history[2].ret
    /\ DeployFromUp(3)
    /\ history[3].deployment_time_ms > 0

(* C11  Frame of a successful retract: accepted in DOWN_LOCKED it goes     *)
(* DOWN_LOCKED -> TRANSITIONING_UP -> UP_LOCKED, returns True, and leaves  *)
(* deployment_time_ms, fault_detected and timeline as they were.           *)
C11_RetractFrame ==
    [][/\ (UpCalled /\ state = DOWN_LOCKED) =>
             /\ state' = TRANSITIONING_UP
             /\ UNCHANGED <<deployment_time_ms, fault_detected, timeline>>
       /\ pc = "retract" =>
             /\ state = TRANSITIONING_UP /\ state' = UP_LOCKED
             /\ UNCHANGED <<deployment_time_ms, fault_detected, timeline>>
             /\ history' = Append(history,
                    Returned("up", TRUE, UP_LOCKED, deployment_time_ms,
                             fault_detected, timeline))]_vars

(* A retract has returned True with the elapsed time and the five events   *)
(* of the deployment before it still in place.                             *)
C11_Witness ==
    /\ Len(history) >= 2
    /\ history[2].cmd = "up" /\ history[2].ret
    /\ history[2].deployment_time_ms = history[1].deployment_time_ms
    /\ history[2].deployment_time_ms > 0
    /\ history[2].timeline = history[1].timeline
    /\ Len(history[2].timeline) = 5

(* The events of a deployment whose three phases all ran, before its end. *)
PhaseEvents(cfg) ==
    <<EvIssued, EvPumpReady(cfg.pump_latency_ms),
      EvExtensionComplete(ExtensionTime(cfg)), EvLockEngaged(cfg.lock_time_ms)>>

EventsOf(tl) == [k \in DOMAIN tl |-> tl[k].event]

(* The i-th command was a deploy that ran and failed (not a rejection). *)
DeployFailed(i) == DeployFromUp(i) /\ ~history[i].ret

(* C12  Failed-deploy outcome: the timeline holds the events from the      *)
(* command-issued event up to the breach, the breach event is the last     *)
(* and the only one, carries FAILURE_DETECTED and the final                *)
(* deployment_time_ms, and that time is above requirement_time_ms.         *)
C12_FailedDeployOutcome ==
    \A i \in DOMAIN history :
        DeployFailed(i) =>
            LET tl == history[i].timeline
                n == Len(tl)
            IN  /\ n >= 3
                /\ tl[1] = [time_ms |-> 0, state |-> UP_LOCKED, event |-> EvIssued]
                /\ SubSeq(EventsOf(tl), 1, n - 1) = SubSeq(PhaseEvents(config), 1, n - 1)
                /\ tl[n] = [time_ms |-> history[i].deployment_time_ms,
                            state |-> FAILURE_DETECTED, event |-> EvBreach]
                /\ \A k \in 1..(n - 1) : tl[k].event # EvBreach
                /\ history[i].deployment_time_ms > config.requirement_time_ms
                /\ history[i].state = FAILURE_DETECTED
                /\ history[i].fault_detected

(* A deploy failed at the check after the lock phase. *)
C12_Witness ==
    /\ Len(history) >= 1
    /\ DeployFailed(1)
    /\ Len(history[1].timeline) = 5
    /\ AfterExtension(config) <= config.requirement_time_ms

(* C13  Successful-deploy timeline: exactly five events, in order command  *)
(* issued (time 0), pump ready, extension complete, lock engaged,          *)
(* deployment complete; the last carries DOWN_LOCKED; no breach event.     *)
C13_SuccessTimeline ==
    \A i \in DOMAIN history :
        (history[i].cmd = "down" /\ history[i].ret) =>
            LET tl == history[i].timeline
            IN  /\ Len(tl) = 5
                /\ EventsOf(tl) = Append(PhaseEvents(config), EvSuccess)
                /\ tl[1].time_ms = 0
                /\ tl[5].state = DOWN_LOCKED
                /\ tl[5].time_ms = history[i].deployment_time_ms
                /\ \A k \in 1..5 : tl[k].event # EvBreach

(* A deploy has returned True. *)
C13_Witness ==
    /\ Len(history) >= 1
    /\ history[1].cmd = "down" /\ history[1].ret
    /\ Len(timeline) = 5
    /\ timeline[5].event = EvSuccess

(* The positions of a deploy that has passed its guards, in program order. *)
DeployPositions ==
    {"pump", "pumping", "check1", "extend", "check2", "lock", "check3", "success"}

Rank(p) ==
    CASE p = "pump" -> 1 [] p = "pumping" -> 2 [] p = "check1" -> 3
      [] p = "extend" -> 4 [] p = "check2" -> 5 [] p = "lock" -> 6
      [] p = "check3" -> 7 [] p = "success" -> 8 [] OTHER -> 9

(* A step of a running deploy goes to a later position or returns. *)
MovesForward == pc \in DeployPositions => Rank(pc) < Rank(pc')

(* C14  Termination of deploy: a deploy that has passed its guards always  *)
(* returns; TRANSITIONING_DOWN always leads to DOWN_LOCKED or              *)
(* FAILURE_DETECTED; every step of the command moves forward in program    *)
(* order, so at most three phases and three checks run.                    *)
C14_DeployTerminates ==
    /\ (state = TRANSITIONING_DOWN) ~> (state \in {DOWN_LOCKED, FAILURE_DETECTED})
    /\ (pc \in DeployPositions) ~> (pc = "idle")
    /\ [][MovesForward]_vars

(* A second deploy of the run has gone through all phases and returned. *)
C14_Witness ==
    /\ Len(history) >= 3
    /\ DeployFromUp(3)
    /\ history[3].state = DOWN_LOCKED
    /\ pc = "idle"
    /\ state = DOWN_LOCKED

-----------------------------------------------------------------------------
(* C15  Commands run to a rest state: after construction and after the     *)
(* return of any command, in any sequence of commands, the state is one of *)
(* UP_LOCKED, DOWN_LOCKED or FAILURE_DETECTED; a transient state is never  *)
(* the state in which a command is issued or returns.                      *)
RestStates == {UP_LOCKED, DOWN_LOCKED, FAILURE_DETECTED}

C15_RestStates ==
    /\ pc = "idle" => state \in RestStates
    /\ \A i \in DOMAIN history :
          /\ EntryState(i) \in RestStates
          /\ history[i].state \in RestStates

(* Three commands have returned, in both locked states, and the            *)
(* controller is at rest.                                                  *)
C15_Witness ==
    /\ pc = "idle"
    /\ Len(history) = 3
    /\ {history[i].state : i \in DOMAIN history} = {UP_LOCKED, DOWN_LOCKED}
    /\ state = DOWN_LOCKED

-----------------------------------------------------------------------------
(* C16  Allowed transitions only: every change of the state is one of      *)
(* UP_LOCKED -> TRANSITIONING_DOWN, TRANSITIONING_DOWN -> DOWN_LOCKED,     *)
(* TRANSITIONING_DOWN -> FAILURE_DETECTED, DOWN_LOCKED -> TRANSITIONING_UP,*)
(* TRANSITIONING_UP -> UP_LOCKED; DOWN_LOCKED is entered only from         *)
(* TRANSITIONING_DOWN after the three requirement checks have passed, and  *)
(* FAILURE_DETECTED is never left.                                         *)
AllowedTransitions ==
    { <<UP_LOCKED, TRANSITIONING_DOWN>>,
      <<TRANSITIONING_DOWN, DOWN_LOCKED>>,
      <<TRANSITIONING_DOWN, FAILURE_DETECTED>>,
      <<DOWN_LOCKED, TRANSITIONING_UP>>,
      <<TRANSITIONING_UP, UP_LOCKED>> }

(* The three checks of the running deployment have passed: the time after  *)
(* each phase was within the requirement and no breach was recorded.       *)
ThreeChecksPassed ==
    /\ pc = "success"
    /\ deployment_time_ms = AfterLocking(config)
    /\ ~RequirementBreached(AfterPump(config), config)
    /\ ~RequirementBreached(AfterExtension(config), config)
    /\ ~RequirementBreached(AfterLocking(config), config)
    /\ EventsOf(timeline) = PhaseEvents(config)

StateChange ==
    state' # state =>
        /\ <<state, state'>> \in AllowedTransitions
        /\ state' = DOWN_LOCKED => state = TRANSITIONING_DOWN /\ ThreeChecksPassed
        /\ state # FAILURE_DETECTED

C16_AllowedTransitions == [][StateChange]_vars

(* A deployment and a retraction have completed and a second deployment    *)
(* is under way: four of the five transitions have been taken.             *)
C16_Witness ==
    /\ Len(history) = 2
    /\ history[1].state = DOWN_LOCKED
    /\ history[2].state = UP_LOCKED
    /\ state = TRANSITIONING_DOWN
    /\ pc = "check3"

-----------------------------------------------------------------------------
(* C17  Monotonic timing model: within a deployment attempt the elapsed    *)
(* time never decreases after its reset to 0, every timeline event carries *)
(* the elapsed time at the moment it was recorded, and so the timestamps   *)
(* of the timeline are non-decreasing in list order, starting with the     *)
(* command-issued event at time 0.                                         *)
TimeReset == pc = "idle" /\ pc' = "pump"

TimeStep ==
    /\ ~TimeReset => deployment_time_ms' >= deployment_time_ms
    /\ TimeReset => deployment_time_ms' = 0
    /\ timeline' # timeline =>
          /\ timeline' # <<>>
          /\ LastOf(timeline').time_ms = deployment_time_ms'
          /\ ~TimeReset => timeline' = Append(timeline, LastOf(timeline'))

TimelineOrdered ==
    /\ \A k \in 1..(Len(timeline) - 1) :
          timeline[k].time_ms <= timeline[k + 1].time_ms
    /\ timeline # <<>> =>
          /\ timeline[1].event = EvIssued
          /\ timeline[1].time_ms = 0

C17_MonotonicTiming == []TimelineOrdered /\ [][TimeStep]_vars

(* A second deployment, started with the elapsed time of the first still   *)
(* in place, has recorded its five events with growing timestamps.         *)
C17_Witness ==
    /\ Len(history) = 3
    /\ history[2].cmd = "up" /\ history[2].ret
    /\ history[2].deployment_time_ms > 0
    /\ history[3].cmd = "down"
    /\ Len(timeline) = 5
    /\ timeline[1].time_ms < timeline[2].time_ms
    /\ timeline[2].time_ms < timeline[3].time_ms
    /\ timeline[3].time_ms < timeline[4].time_ms

-----------------------------------------------------------------------------
(* C18  Fault flag and fault state agree: at every command boundary of     *)
(* every sequence of commands, fault_detected is true if and only if the   *)
(* state is FAILURE_DETECTED.                                              *)
C18_FaultFlagAgrees ==
    /\ pc = "idle" => (fault_detected <=> state = FAILURE_DETECTED)
    /\ \A i \in DOMAIN history :
          history[i].fault_detected <=> history[i].state = FAILURE_DETECTED

(* A deployment has failed at its second check with the flag set, and a    *)
(* later retraction has been rejected without clearing it.                 *)
C18_Witness ==
    /\ pc = "idle"
    /\ Len(history) >= 2
    /\ DeployFailed(1)
    /\ Len(history[1].timeline) = 4
    /\ history[2].cmd = "up" /\ ~history[2].ret
    /\ fault_detected /\ state = FAILURE_DETECTED

-----------------------------------------------------------------------------
(* C19  The gear is never locked down past the deadline: whenever the      *)
(* state is DOWN_LOCKED the elapsed time is at most requirement_time_ms,   *)
(* and whenever the elapsed time exceeds requirement_time_ms at a command  *)
(* boundary the state is FAILURE_DETECTED.                                 *)
C19_NeverLockedPastDeadline ==
    /\ state = DOWN_LOCKED => deployment_time_ms <= config.requirement_time_ms
    /\ (pc = "idle" /\ deployment_time_ms > config.requirement_time_ms)
          => state = FAILURE_DETECTED
    /\ \A i \in DOMAIN history :
          /\ history[i].state = DOWN_LOCKED
                => history[i].deployment_time_ms <= config.requirement_time_ms
          /\ history[i].deployment_time_ms > config.requirement_time_ms
                => history[i].state = FAILURE_DETECTED

(* The gear is locked down with the elapsed time exactly at a deadline     *)
(* other than the default one.                                             *)
C19_Witness ==
    /\ pc = "idle"
    /\ state = DOWN_LOCKED
    /\ deployment_time_ms = config.requirement_time_ms
    /\ config.requirement_time_ms # BASELINE_CONFIG.requirement_time_ms
    /\ Len(history) >= 1 /\ LastOf(history).cmd = "down" /\ LastOf(history).ret

-----------------------------------------------------------------------------
(* C20  v5.0 is a conservative extension of v3.0: for every configuration  *)
(* and every sequence of command_gear_down / command_gear_up calls, the    *)
(* v3.0 controller and the v5.0 controller return the same value for each  *)
(* call and hold the same state, deployment_time_ms and fault_detected     *)
(* after each call; the timeline is the only state v5.0 adds and it never  *)
(* influences the control flow.                                            *)

(* The v3.0 controller run on the first i commands of the history: the     *)
(* value its i-th call returns and its fields afterwards.                  *)
RECURSIVE V3Run(_)
V3Run(i) ==
    IF i = 0 THEN V3Return(TRUE, V3Init)
    ELSE LET before == V3Run(i - 1).after
         IN  IF history[i].cmd = "down"
             THEN V3CommandGearDown(before, config)
             ELSE V3CommandGearUp(before)

V5Fields(h) == V3Controller(h.state, h.deployment_time_ms, h.fault_detected)

C20_ConservativeExtension ==
    /\ \A i \in DOMAIN history :
          /\ V3Run(i).ret = history[i].ret
          /\ V3Run(i).after = V5Fields(history[i])
    /\ pc = "idle" =>
          V3Run(Len(history)).after
              = V3Controller(state, deployment_time_ms, fault_detected)

(* Both controllers have run a deployment whose floating-point extension   *)
(* time falls short of the exact quotient, a retraction, a second          *)
(* deployment and a rejected deployment.                                   *)
C20_Witness ==
    /\ pc = "idle"
    /\ Len(history) = 4
    /\ ExtensionTime(config) # V3ExtensionTime_ExactQuotient(config)
    /\ history[1].cmd = "down" /\ history[1].ret
    /\ history[2].cmd = "up" /\ history[2].ret
    /\ history[3].cmd = "down" /\ history[3].ret
    /\ history[4].cmd = "down" /\ ~history[4].ret
    /\ Len(timeline) = 5
====
